---- MODULE Spec2Model ----
(***************************************************************************)
(* Bandersnatch VRF engine of jamzig (ffi/rust/crypto).                    *)
(*                                                                         *)
(* Part 1: the process-wide ring-context cache (ring_vrf/context.rs):      *)
(* a OnceLock holding the deserialized reference string, a OnceLock        *)
(* holding Mutex<LruCache<usize, RingContext>>, and threads that call      *)
(* ring_context(ring_size).                                                *)
(*                                                                         *)
(* Part 2: the Prover and Verifier actors (ring_vrf.rs, lib.rs) on top of  *)
(* the cache, with the curve backend (ark-ec-vrfs) as an ideal VRF: an     *)
(* output point is fixed by (secret, input), a proof verifies exactly for  *)
(* the statement it was made for. Part 2b: the CommitmentVerifier          *)
(* (ring_vrf/commitment.rs).                                               *)
(*                                                                         *)
(* Part 3: the C functions of lib.rs on the single static RING_CTX.        *)
(* Part 4: ed25519_verify (ed25519.rs).                                    *)
(* Part 5: the ProgramExecutor of polkavm_ffi, the VM engine's run() being *)
(* free to return any interrupt.                                           *)
(***************************************************************************)
EXTENDS Integers, Sequences, FiniteSets, TLC

\* ---------------------------------------------------------------- bounds
NThreads == 2
\* largest ring size RingContext::from_srs accepts for the embedded SRS
MaxRingSize == 11
\* number of ring_context calls started in one behaviour
MaxCalls == 3
\* number of sequential warm-up calls ring_context(1..WarmLen) a warm
\* process has completed before the behaviour starts
WarmLen == 9
\* number of secret keys
NKeys == 2
\* number of distinct byte strings used as vrf_input_data and as aux_data
NData == 2
\* longest message handed to ed25519_verify, in bytes
MaxMsgLen == 1
\* number of step calls made on one ProgramExecutor
MaxSteps == 3
\* number of page addresses a guest program can fault on, and of initial
\* pages handed to create_executor
NPages == 2
\* width in bits of gas_limit (u64 in the program, 64 bits) and of the
\* instance's gas counter (i64)
GasBits == 3

\* ------------------------------------------------------- program constants
RING_CONTEXT_CACHE_CAPACITY == 10

Threads == 1..NThreads
\* ring sizes; MaxRingSize + 1 exceeds the backend limit
RingSizes == 1..(MaxRingSize + 1)
\* ring sizes the callers of a behaviour pass: the two oldest entries of a
\* warm cache, the supported sizes a warm cache does not hold, and the
\* unsupported size
Requested == {n \in RingSizes : n <= 2 \/ n > WarmLen}

VARIABLES
  PCS_PARAMS,     \* OnceLock<PcsParams>: [state, load]
  pcsLoads,       \* number of completed init_pcs_params executions
  cacheOnce,      \* OnceLock around the Mutex<LruCache>: TRUE once set
  lockOwner,      \* thread holding the MutexGuard, 0 when free
  poisoned,       \* Mutex poison flag
  lru,            \* LruCache contents, most recently used first
  lastAccess,     \* ring size -> recency rank of its last hit or insert
                  \* (0: never accessed, larger: more recent)
  derives,        \* ring size -> from_srs derivations in this residency
  calls,          \* ring_context calls started
  pc,             \* per thread: position inside ring_context
  ring_size,      \* per thread: argument of the running call
  pcs_params,     \* per thread: the &PcsParams read from PCS_PARAMS
  ret,            \* per thread: outcome of the last finished call
  prover,         \* the Prover under test: [prover_idx, secret, ring]
  vrf_input_data, \* the input data the Prover signs
  verifier,       \* the Verifier under test: [commitment, ring]
  ringSig,        \* outcome of the last Prover::ring_vrf_sign
  ietfSig,        \* outcome of the last Prover::ietf_vrf_sign
  ringRes,        \* arguments and outcome of the last ring_vrf_verify
  ietfRes,        \* arguments and outcome of the last ietf_vrf_verify
  args,           \* the arguments of the IETF calls of a behaviour
  commitmentVerifier, \* the CommitmentVerifier under test
  cvRes,          \* arguments and outcome of its last ring_vrf_verify
  RING_CTX,       \* lib.rs OnceLock<RingContext>: [state, inits]
  libPc,          \* per thread: position inside initialize_ring_context
  libCtx,         \* per thread: the &RingContext its last call obtained
  ffiArgs,        \* the buffers a caller of the C functions owns
  genSig,         \* outcome of the last generate_ring_signature
  vrf_output,     \* the caller's 32-byte vrf_output buffer
  ffiRes,         \* arguments and outcome of the last verify_ring_signature
  edArgs,         \* the arguments of the ed25519_verify call
  edRes,          \* the value ed25519_verify returned
  executor,       \* the ProgramExecutor: [current_status, segfault_address]
  lastResult,     \* the ExecutionResult of the last step
  interrupts,     \* the outcomes of instance.run(), oldest first
  finished,       \* the value of the last is_finished call
  newResult,      \* the Result ProgramExecutor::new returned
  stagesRun,      \* the stages of ProgramExecutor::new that were executed
  gas_limit,      \* the gas_limit argument of create_executor
  instance        \* the RawInstance as ProgramExecutor::new left it

cacheVars == <<PCS_PARAMS, pcsLoads, cacheOnce, lockOwner, poisoned, lru,
               lastAccess, derives>>
threadVars == <<calls, pc, ring_size, pcs_params, ret>>
vrfVars == <<prover, vrf_input_data, verifier, ringSig, ietfSig, ringRes,
             ietfRes, args>>
commitVars == <<commitmentVerifier, cvRes>>
ffiVars == <<RING_CTX, libPc, libCtx, ffiArgs, genSig, vrf_output, ffiRes>>
edVars == <<edArgs, edRes>>
vmVars ==
  <<executor, lastResult, interrupts, finished, newResult, stagesRun, gas_limit,
    instance>>
\* the state of the components beside the cache and the two actors
extVars == <<commitVars, ffiVars, edVars, vmVars>>
vars == <<cacheVars, threadVars, vrfVars, extVars>>

\* ------------------------------------------------------------ pure helpers
NoRef == [srs |-> "none", load |-> 0]
NoRet == [kind |-> "none"]
Panic == [kind |-> "panic"]

\* deserialize_uncompressed_unchecked(ZCASH_SRS).expect(..): the embedded
\* blob is fixed at build time and deserializes.
init_pcs_params == [srs |-> "ZCASH_SRS"]

\* RingContext::from_srs(ring_size, pcs_params): a pure function of the
\* ring size and the reference string, Err beyond the backend limit.
FromSrs(n, params) ==
  IF n <= MaxRingSize
    THEN [kind |-> "ctx", ring_size |-> n, srs |-> params.srs]
    ELSE [kind |-> "err"]

\* OnceLock::get_or_init runs the initializer only from the vacant state;
\* while another initializer is running the caller blocks.
OnceLockVacantRacy(st) == st # "init"
OnceLockVacant(st) == st = "uninit"

\* Mutex::lock blocks until no guard is alive.
MutexFreeRacy(owner) == TRUE
MutexFree(owner) == owner = 0

Keys(c) == {c[i].key : i \in 1..Len(c)}

\* the recency ranks after an access to ring size n: n becomes the most
\* recent, the order of the other ring sizes is kept
Touch(la, n) ==
  [k \in DOMAIN la |->
     IF k = n THEN Cardinality({j \in DOMAIN la : la[j] > 0} \cup {n})
     ELSE IF la[n] > 0 /\ la[k] > la[n] THEN la[k] - 1
     ELSE la[k]]

\* position of key k in the cache, 0 when absent (LruCache hash map lookup)
LruIndexFirst(c, k) == IF Len(c) > 0 THEN 1 ELSE 0
LruIndex(c, k) ==
  IF \E i \in 1..Len(c) : c[i].key = k
    THEN CHOOSE i \in 1..Len(c) : c[i].key = k
    ELSE 0

Without(c, i) == SubSeq(c, 1, i - 1) \o SubSeq(c, i + 1, Len(c))

\* LruCache::get on a present key: move the node to the front
LruGet(c, i) == <<c[i]>> \o Without(c, i)

\* LruCache::put: replace and promote an existing key, otherwise drop the
\* tail (least recently used) when full and push to the front
LruPutNoEvict(c, k, v) == <<[key |-> k, val |-> v]>> \o c
LruPutEvictFront(c, k, v) ==
  IF Len(c) >= RING_CONTEXT_CACHE_CAPACITY
    THEN <<[key |-> k, val |-> v]>> \o SubSeq(c, 2, Len(c))
    ELSE <<[key |-> k, val |-> v]>> \o c
LruPut(c, k, v) ==
  LET i == LruIndex(c, k)
      e == [key |-> k, val |-> v]
  IN  IF i # 0 THEN <<e>> \o Without(c, i)
      ELSE IF Len(c) >= RING_CONTEXT_CACHE_CAPACITY
        THEN <<e>> \o SubSeq(c, 1, RING_CONTEXT_CACHE_CAPACITY - 1)
        ELSE <<e>> \o c

\* the cache after the sequential calls ring_context(1), .., ring_context(w)
RECURSIVE WarmCache(_)
WarmCache(w) ==
  IF w = 0 THEN <<>>
  ELSE LruPut(WarmCache(w - 1), w, FromSrs(w, init_pcs_params))

\* ------------------------------------------------------------------- Init
\* A cold process (nothing initialized), or a process in which one thread
\* has already run ring_context(1), .., ring_context(WarmLen).
InitCache(w) ==
  /\ PCS_PARAMS = IF w = 0 THEN [state |-> "uninit", load |-> 0]
                           ELSE [state |-> "init", load |-> 1]
  /\ pcsLoads = IF w = 0 THEN 0 ELSE 1
  /\ cacheOnce = (w > 0)
  /\ lockOwner = 0
  /\ poisoned = FALSE
  /\ lru = WarmCache(w)
  /\ lastAccess = [n \in RingSizes |-> IF n <= w THEN n ELSE 0]
  /\ derives = [n \in RingSizes |-> IF n <= w THEN 1 ELSE 0]

InitThreads ==
  /\ calls = 0
  /\ pc = [t \in Threads |-> "idle"]
  /\ ring_size = [t \in Threads |-> 0]
  /\ pcs_params = [t \in Threads |-> NoRef]
  /\ ret = [t \in Threads |-> NoRet]

WarmStarts == {0, IF WarmLen <= MaxRingSize THEN WarmLen ELSE MaxRingSize}

\* no Prover or Verifier exists
InitNoVrf ==
  /\ prover = NoRet
  /\ vrf_input_data = 0
  /\ verifier = NoRet
  /\ ringSig = NoRet
  /\ ietfSig = NoRet
  /\ ringRes = NoRet
  /\ ietfRes = NoRet
  /\ args = NoRet

\* no CommitmentVerifier exists
InitNoCommit ==
  /\ commitmentVerifier = NoRet
  /\ cvRes = NoRet

\* lib.rs: RING_CTX is vacant, no C function has been called
InitNoFfi ==
  /\ RING_CTX = [state |-> "uninit", inits |-> 0]
  /\ libPc = [t \in Threads |-> "idle"]
  /\ libCtx = [t \in Threads |-> NoRet]
  /\ ffiArgs = NoRet
  /\ genSig = NoRet
  /\ vrf_output = NoRet
  /\ ffiRes = NoRet

\* ed25519_verify has not been called
InitNoEd ==
  /\ edArgs = NoRet
  /\ edRes = NoRet

\* no ProgramExecutor exists
InitNoVm ==
  /\ executor = NoRet
  /\ lastResult = NoRet
  /\ interrupts = <<>>
  /\ finished = NoRet
  /\ newResult = NoRet
  /\ stagesRun = <<>>
  /\ gas_limit = 0
  /\ instance = NoRet

InitNoExt == InitNoCommit /\ InitNoFfi /\ InitNoEd /\ InitNoVm

Init ==
  /\ \E w \in WarmStarts : InitCache(w)
  /\ InitThreads
  /\ InitNoVrf
  /\ InitNoExt

\* ---------------------------------------------------------------- actions
\* a thread enters ring_context(n)
Call(t, n) ==
  /\ pc[t] \in {"idle", "done"}
  /\ calls < MaxCalls
  /\ calls' = calls + 1
  /\ pc' = [pc EXCEPT ![t] = "pcs"]
  /\ ring_size' = [ring_size EXCEPT ![t] = n]
  /\ pcs_params' = [pcs_params EXCEPT ![t] = NoRef]
  /\ ret' = [ret EXCEPT ![t] = NoRet]
  /\ UNCHANGED cacheVars
  /\ UNCHANGED <<vrfVars, extVars>>

\* PCS_PARAMS.get_or_init(init_pcs_params): already set, read the reference
PcsGet(t) ==
  /\ pc[t] = "pcs"
  /\ PCS_PARAMS.state = "init"
  /\ pcs_params' = [pcs_params EXCEPT
                      ![t] = [srs |-> init_pcs_params.srs,
                              load |-> PCS_PARAMS.load]]
  /\ pc' = [pc EXCEPT ![t] = "cache_once"]
  /\ UNCHANGED <<cacheVars, calls, ring_size, ret>>
  /\ UNCHANGED <<vrfVars, extVars>>

\* PCS_PARAMS.get_or_init(init_pcs_params): vacant, this thread becomes the
\* initializer
PcsBeginInit(t) ==
  /\ pc[t] = "pcs"
  /\ PCS_PARAMS.state # "init"
  /\ OnceLockVacant(PCS_PARAMS.state)
  /\ PCS_PARAMS' = [PCS_PARAMS EXCEPT !.state = "running"]
  /\ pc' = [pc EXCEPT ![t] = "pcs_init"]
  /\ UNCHANGED <<pcsLoads, cacheOnce, lockOwner, poisoned, lru,
                 lastAccess, derives, calls, ring_size, pcs_params, ret>>
  /\ UNCHANGED <<vrfVars, extVars>>

\* init_pcs_params() returns and the OnceLock is set
PcsFinishInit(t) ==
  /\ pc[t] = "pcs_init"
  /\ pcsLoads' = pcsLoads + 1
  /\ PCS_PARAMS' = [state |-> "init", load |-> pcsLoads + 1]
  /\ pcs_params' = [pcs_params EXCEPT
                      ![t] = [srs |-> init_pcs_params.srs,
                              load |-> pcsLoads + 1]]
  /\ pc' = [pc EXCEPT ![t] = "cache_once"]
  /\ UNCHANGED <<cacheOnce, lockOwner, poisoned, lru, lastAccess,
                 derives, calls, ring_size, ret>>
  /\ UNCHANGED <<vrfVars, extVars>>

\* RING_CONTEXT_CACHE.get_or_init(|| Mutex::new(LruCache::new(capacity)))
CacheGetOrInit(t) ==
  /\ pc[t] = "cache_once"
  /\ cacheOnce' = TRUE
  /\ pc' = [pc EXCEPT ![t] = "lock"]
  /\ UNCHANGED <<PCS_PARAMS, pcsLoads, lockOwner, poisoned, lru,
                 lastAccess, derives, calls, ring_size, pcs_params, ret>>
  /\ UNCHANGED <<vrfVars, extVars>>

\* cache.lock().unwrap() on a healthy mutex
Lock(t) ==
  /\ pc[t] = "lock"
  /\ MutexFree(lockOwner)
  /\ ~poisoned
  /\ lockOwner' = t
  /\ pc' = [pc EXCEPT ![t] = "get"]
  /\ UNCHANGED <<PCS_PARAMS, pcsLoads, cacheOnce, poisoned, lru,
                 lastAccess, derives, calls, ring_size, pcs_params, ret>>
  /\ UNCHANGED <<vrfVars, extVars>>

\* cache.lock().unwrap() on a poisoned mutex: lock() is Err, unwrap panics
LockPoisoned(t) ==
  /\ pc[t] = "lock"
  /\ MutexFree(lockOwner)
  /\ poisoned
  /\ ret' = [ret EXCEPT ![t] = Panic]
  /\ pc' = [pc EXCEPT ![t] = "done"]
  /\ UNCHANGED <<cacheVars, calls, ring_size, pcs_params>>
  /\ UNCHANGED <<vrfVars, extVars>>

\* cache.get(&ring_size) is Some: promote, clone, drop the guard, return
GetHit(t) ==
  /\ pc[t] = "get"
  /\ LET i == LruIndex(lru, ring_size[t]) IN
       /\ i # 0
       /\ ret' = [ret EXCEPT ![t] = [kind |-> "ctx", ctx |-> lru[i].val,
                                      via |-> "hit", again |-> FALSE]]
       /\ lru' = LruGet(lru, i)
       /\ lastAccess' = Touch(lastAccess, lru[i].key)
  /\ lockOwner' = 0
  /\ pc' = [pc EXCEPT ![t] = "done"]
  /\ UNCHANGED <<PCS_PARAMS, pcsLoads, cacheOnce, poisoned, derives, calls,
                 ring_size, pcs_params>>
  /\ UNCHANGED <<vrfVars, extVars>>

\* cache.get(&ring_size) is None: take the else branch
GetMiss(t) ==
  /\ pc[t] = "get"
  /\ LruIndex(lru, ring_size[t]) = 0
  /\ pc' = [pc EXCEPT ![t] = "from_srs"]
  /\ UNCHANGED <<cacheVars, calls, ring_size, pcs_params, ret>>
  /\ UNCHANGED <<vrfVars, extVars>>

\* from_srs(..).unwrap() is Ok: cache.put(ring_size, ctx.clone()); ctx
DerivePut(t) ==
  /\ pc[t] = "from_srs"
  /\ LET n == ring_size[t]
         ctx == FromSrs(n, pcs_params[t])
         new == LruPut(lru, n, ctx)
     IN  /\ ctx.kind = "ctx"
         /\ lru' = new
         /\ ret' = [ret EXCEPT ![t] = [kind |-> "ctx", ctx |-> ctx,
                                        via |-> "miss",
                                        again |-> lastAccess[n] > 0]]
         /\ lastAccess' = Touch(lastAccess, n)
         /\ derives' = [k \in RingSizes |->
                          IF k = n
                            THEN (IF n \in Keys(lru) THEN derives[n] + 1
                                                     ELSE 1)
                            ELSE IF k \in Keys(new) THEN derives[k] ELSE 0]
  /\ lockOwner' = 0
  /\ pc' = [pc EXCEPT ![t] = "done"]
  /\ UNCHANGED <<PCS_PARAMS, pcsLoads, cacheOnce, poisoned, calls,
                 ring_size, pcs_params>>
  /\ UNCHANGED <<vrfVars, extVars>>

\* from_srs(..).unwrap() is Err: the thread panics while holding the guard,
\* which poisons the mutex and releases it
DerivePanic(t) ==
  /\ pc[t] = "from_srs"
  /\ FromSrs(ring_size[t], pcs_params[t]).kind = "err"
  /\ poisoned' = TRUE
  /\ lockOwner' = 0
  /\ ret' = [ret EXCEPT ![t] = Panic]
  /\ pc' = [pc EXCEPT ![t] = "done"]
  /\ UNCHANGED <<PCS_PARAMS, pcsLoads, cacheOnce, lru, lastAccess,
                 derives, calls, ring_size, pcs_params>>
  /\ UNCHANGED <<vrfVars, extVars>>

Next ==
  \/ \E t \in Threads, n \in Requested : Call(t, n)
  \/ \E t \in Threads : PcsGet(t)
  \/ \E t \in Threads : PcsBeginInit(t)
  \/ \E t \in Threads : PcsFinishInit(t)
  \/ \E t \in Threads : CacheGetOrInit(t)
  \/ \E t \in Threads : Lock(t)
  \/ \E t \in Threads : LockPoisoned(t)
  \/ \E t \in Threads : GetHit(t)
  \/ \E t \in Threads : GetMiss(t)
  \/ \E t \in Threads : DerivePut(t)
  \/ \E t \in Threads : DerivePanic(t)

Spec == Init /\ [][Next]_vars

\* ==================================================== Part 2: VRF actors
Secrets == 1..NKeys
Data == 0..(NData - 1)

\* secret.public()
PublicOf(secret) == [point |-> secret]

\* the ring of the first two keys in either order, and one ring whose
\* length is beyond what from_srs supports; a secret above 2 is in no ring
BigRing == [i \in 1..(MaxRingSize + 1) |-> PublicOf(1)]
SmallRings == {<<PublicOf(1), PublicOf(2)>>, <<PublicOf(2), PublicOf(1)>>}
Rings == SmallRings \cup {BigRing}

\* Prover::new(ring, prover_secret, prover_idx): stores its arguments
ProverNew(ring, prover_secret, prover_idx) ==
  [prover_idx |-> prover_idx, secret |-> prover_secret, ring |-> ring]

\* Input::new(vrf_input_data).unwrap(): deterministic hash to curve
vrf_input_point(data) == [h2c |-> data]

\* secret.output(input): the point secret * input
SecretOutput(secret, input) == [sk |-> secret, inp |-> input.h2c]

\* output.hash()[..32]
OutputHash32(output) == [sha512_32 |-> <<output.sk, output.inp>>]

\* ring_ctx.verifier_key(&pts).commitment(): binds the points in order
RingCommitment(ctx, pts) ==
  [ring_size |-> ctx.ring_size, srs |-> ctx.srs, pts |-> pts]

\* secret.prove(input, output, aux_data, &prover) with
\* prover = ring_ctx.prover(ring_ctx.prover_key(&pts), prover_idx)
RingProve(secret, input, output, aux, ctx, pts, idx) ==
  [com |-> RingCommitment(ctx, pts), inp |-> input, out |-> output,
   aux |-> aux,
   sound |-> /\ idx + 1 \in 1..Len(pts)
             /\ pts[idx + 1] = PublicOf(secret)
             /\ output = SecretOutput(secret, input)]

\* Public::verify(input, output, aux_data, &proof, &verifier) with
\* verifier = ring_ctx.verifier(verifier_key_from_commitment(commitment))
RingVerify(input, output, aux, proof, ctx, commitment) ==
  /\ proof.sound
  /\ proof.com = commitment
  /\ commitment.ring_size = ctx.ring_size
  /\ commitment.srs = ctx.srs
  /\ proof.inp = input
  /\ proof.out = output
  /\ proof.aux = aux

\* secret.prove(input, output, aux_data) of the IETF prover
IetfProve(secret, input, output, aux) ==
  [signer |-> PublicOf(secret), inp |-> input, out |-> output, aux |-> aux,
   sound |-> output = SecretOutput(secret, input)]

\* public.verify(input, output, aux_data, &proof) of the IETF verifier
IetfVerify(public, input, output, aux, proof) ==
  /\ proof.sound
  /\ proof.signer = public
  /\ proof.inp = input
  /\ proof.out = output
  /\ proof.aux = aux

\* signature.serialize_compressed(&mut buf): {output || proof}
SerializeCompressed(fmt, output, proof) ==
  [fmt |-> fmt, output |-> output, proof |-> proof]

\* T::deserialize_compressed(bytes): Err unless the bytes encode a T
DeserializeCompressed(fmt, bytes) ==
  IF bytes.fmt = fmt
    THEN [ok |-> TRUE, output |-> bytes.output, proof |-> bytes.proof]
    ELSE [ok |-> FALSE]

\* bytes that decode as no signature
Garbage == [fmt |-> "garbage"]
\* a signature whose output point was replaced by another point
Tampered(bytes) ==
  [bytes EXCEPT !.output = [sk |-> (bytes.output.sk % NKeys) + 1,
                            inp |-> bytes.output.inp]]

\* the typed results
Ok(v) == [kind |-> "Ok", val |-> v]
Err(e) == [kind |-> "Err", err |-> e]

\* ring_context(n) run to completion by one thread (the critical section
\* of lines 28-36 is exclusive): the returned value and the cache after it
RingContextRun(n) ==
  LET i == LruIndex(lru, n)
      ctx == FromSrs(n, init_pcs_params)
  IN  IF poisoned
        THEN [ret |-> Panic, lru |-> lru, poisoned |-> TRUE, access |-> 0]
      ELSE IF i # 0
        THEN [ret |-> Ok(lru[i].val), lru |-> LruGet(lru, i),
              poisoned |-> FALSE, access |-> n]
      ELSE IF ctx.kind = "ctx"
        THEN [ret |-> Ok(ctx), lru |-> LruPut(lru, n, ctx),
              poisoned |-> FALSE, access |-> n]
      ELSE [ret |-> Panic, lru |-> lru, poisoned |-> TRUE, access |-> 0]

\* the effect of that call on the process-wide state
ApplyRingContext(r) ==
  /\ PCS_PARAMS' = [state |-> "init", load |-> 1]
  /\ pcsLoads' = 1
  /\ cacheOnce' = TRUE
  /\ lockOwner' = 0
  /\ poisoned' = r.poisoned
  /\ lru' = r.lru
  /\ lastAccess' = IF r.access # 0 THEN Touch(lastAccess, r.access)
                                     ELSE lastAccess
  /\ derives' = [k \in RingSizes |-> IF k \in Keys(r.lru) THEN 1 ELSE 0]

\* Prover::ring_vrf_sign(&self, vrf_input_data, aux_data) given the
\* outcome r of its ring_context(pts.len()) call
ring_vrf_sign(p, data, aux, r) ==
  IF r.ret.kind # "Ok" THEN Panic
  ELSE LET input == vrf_input_point(data)
           output == SecretOutput(p.secret, input)
           proof == RingProve(p.secret, input, output, aux, r.ret.val,
                              p.ring, p.prover_idx)
       IN  Ok(SerializeCompressed("RingVrfSignature", output, proof))

\* Prover::ietf_vrf_sign(&self, vrf_input_data, aux_data)
ietf_vrf_sign(p, data, aux) ==
  LET input == vrf_input_point(data)
      output == SecretOutput(p.secret, input)
      proof == IetfProve(p.secret, input, output, aux)
  IN  Ok(SerializeCompressed("IetfVrfSignature", output, proof))

\* Verifier::new(ring) given the outcome r of ring_context(ring.len())
VerifierNew(ring, r) ==
  IF r.ret.kind # "Ok" THEN Panic
  ELSE [kind |-> "Verifier", ring |-> ring,
        commitment |-> RingCommitment(r.ret.val, ring)]

\* Verifier::ring_vrf_verify(&self, vrf_input_data, aux_data, signature)
\* given the outcome r of ring_context(self.ring.len()); the call is made
\* only after the signature has decoded
ring_vrf_verify_unchecked(v, data, aux, bytes, r) ==
  LET sig == DeserializeCompressed("RingVrfSignature", bytes)
  IN  IF ~sig.ok THEN Err("DeserializationError")
      ELSE IF r.ret.kind # "Ok" THEN Panic
      ELSE Ok(OutputHash32(sig.output))
ring_vrf_verify_hash_aux(v, data, aux, bytes, r) ==
  LET sig == DeserializeCompressed("RingVrfSignature", bytes)
      input == vrf_input_point(data)
  IN  IF ~sig.ok THEN Err("DeserializationError")
      ELSE IF r.ret.kind # "Ok" THEN Panic
      ELSE IF ~RingVerify(input, sig.output, aux, sig.proof, r.ret.val,
                          v.commitment)
        THEN Err("VerificationFailed")
      ELSE Ok([sha512_32 |-> <<sig.output.sk, sig.output.inp, aux>>])
ring_vrf_verify(v, data, aux, bytes, r) ==
  LET sig == DeserializeCompressed("RingVrfSignature", bytes)
      input == vrf_input_point(data)
  IN  IF ~sig.ok THEN Err("DeserializationError")
      ELSE IF r.ret.kind # "Ok" THEN Panic
      ELSE IF ~RingVerify(input, sig.output, aux, sig.proof, r.ret.val,
                          v.commitment)
        THEN Err("VerificationFailed")
      ELSE Ok(OutputHash32(sig.output))

\* ring_vrf.rs Verifier::ietf_vrf_verify(&self, vrf_input_data, aux_data,
\* signature, signer_key_index)
ietf_vrf_verify(v, data, aux, bytes, signer_key_index) ==
  LET sig == DeserializeCompressed("IetfVrfSignature", bytes)
      input == vrf_input_point(data)
  IN  IF ~sig.ok THEN Err("DeserializationError")
      ELSE IF signer_key_index >= Len(v.ring)
        THEN Err("InvalidSignerKeyIndex")
      ELSE IF ~IetfVerify(v.ring[signer_key_index + 1], input, sig.output,
                          aux, sig.proof)
        THEN Err("VerificationFailed")
      ELSE Ok(OutputHash32(sig.output))

\* lib.rs Verifier::ietf_vrf_verify: deserialize_compressed(..).unwrap(),
\* &self.ring[signer_key_index], Err(()) on a failed proof
lib_ietf_vrf_verify(v, data, aux, bytes, signer_key_index) ==
  LET sig == DeserializeCompressed("IetfVrfSignature", bytes)
      input == vrf_input_point(data)
  IN  IF ~sig.ok THEN Panic
      ELSE IF signer_key_index >= Len(v.ring) THEN Panic
      ELSE IF ~IetfVerify(v.ring[signer_key_index + 1], input, sig.output,
                          aux, sig.proof)
        THEN Err("()")
      ELSE Ok(OutputHash32(sig.output))

\* ------------------------------------------------------------ VRF: Init
\* a Prover built by Prover::new from any ring, secret and in-range index
\* (the index need not be the position of the secret's key), and the
\* input data it signs
InitActors ==
  /\ \E w \in WarmStarts : InitCache(w)
  /\ InitThreads
  /\ \E ring \in Rings, secret \in Secrets, idx \in 0..1 :
       prover = ProverNew(ring, secret, idx)
  /\ vrf_input_data \in Data
  /\ verifier = NoRet
  /\ ringSig = NoRet
  /\ ietfSig = NoRet
  /\ ringRes = NoRet
  /\ ietfRes = NoRet

\* ring signatures: the arguments are chosen call by call
InitVrf == InitActors /\ args = NoRet /\ InitNoExt

\* IETF signatures: any sign aux, any verify arguments
InitIetf ==
  /\ InitActors
  /\ InitNoExt
  /\ args \in [ring_aux : {0}, sign_aux : Data, data : Data, aux : Data,
               src : {"ietf", "ietf_tampered", "garbage"}, idx : 0..2]

\* both modes on what the Prover signed: any two aux data, any in-range
\* signer index
InitCross ==
  /\ InitActors
  /\ InitNoExt
  /\ \E a1 \in Data, a2 \in Data, i \in 0..1 :
       args = [ring_aux |-> a1, sign_aux |-> a2, data |-> vrf_input_data,
               aux |-> a2, src |-> "ietf", idx |-> i]

\* --------------------------------------------------------- VRF: actions
\* another thread runs ring_context(n) to completion
OtherRingContext(n) ==
  /\ ApplyRingContext(RingContextRun(n))
  /\ UNCHANGED <<threadVars, vrfVars, extVars>>

\* Verifier::new(ring)
NewVerifier(ring) ==
  /\ verifier = NoRet
  /\ LET r == RingContextRun(Len(ring)) IN
       /\ ApplyRingContext(r)
       /\ verifier' = VerifierNew(ring, r)
  /\ UNCHANGED <<threadVars, prover, vrf_input_data, ringSig, ietfSig,
                 ringRes, ietfRes, args>>
  /\ UNCHANGED extVars

\* prover.ring_vrf_sign(vrf_input_data, aux)
RingVrfSign(aux) ==
  /\ LET r == RingContextRun(Len(prover.ring)) IN
       /\ ApplyRingContext(r)
       /\ ringSig' = ring_vrf_sign(prover, vrf_input_data, aux, r)
  /\ UNCHANGED <<threadVars, prover, vrf_input_data, verifier, ietfSig,
                 ringRes, ietfRes, args>>
  /\ UNCHANGED extVars

\* prover.ietf_vrf_sign(vrf_input_data, aux)
IetfVrfSignFetchesContext(aux) ==
  /\ LET r == RingContextRun(Len(prover.ring)) IN
       /\ ApplyRingContext(r)
       /\ ietfSig' = IF r.ret.kind = "Ok"
                       THEN ietf_vrf_sign(prover, vrf_input_data, aux)
                       ELSE Panic
  /\ UNCHANGED <<threadVars, prover, vrf_input_data, verifier, ringSig,
                 ringRes, ietfRes, args>>
  /\ UNCHANGED extVars
IetfVrfSign(aux) ==
  /\ ietfSig' = ietf_vrf_sign(prover, vrf_input_data, aux)
  /\ UNCHANGED <<cacheVars, threadVars, prover, vrf_input_data, verifier,
                 ringSig, ringRes, ietfRes, args>>
  /\ UNCHANGED extVars

\* the signature bytes a caller hands to a verify call
SigBytes(src) ==
  CASE src = "ring" -> ringSig.val
    [] src = "ring_tampered" -> Tampered(ringSig.val)
    [] src = "ietf" -> ietfSig.val
    [] src = "ietf_tampered" -> Tampered(ietfSig.val)
    [] OTHER -> Garbage
HaveBytes(src) ==
  CASE src \in {"ring", "ring_tampered"} -> ringSig.kind = "Ok"
    [] src \in {"ietf", "ietf_tampered"} -> ietfSig.kind = "Ok"
    [] OTHER -> TRUE

\* verifier.ring_vrf_verify(data, aux, bytes)
RingVrfVerify(data, aux, src) ==
  /\ verifier.kind = "Verifier"
  /\ HaveBytes(src)
  /\ LET bytes == SigBytes(src)
         decoded == DeserializeCompressed("RingVrfSignature", bytes).ok
         r == RingContextRun(Len(verifier.ring))
     IN  /\ IF decoded THEN ApplyRingContext(r) ELSE UNCHANGED cacheVars
         /\ ringRes' = [data |-> data, aux |-> aux, src |-> src,
                        bytes |-> bytes,
                        out |-> ring_vrf_verify(verifier, data, aux, bytes,
                                                r)]
  /\ UNCHANGED <<threadVars, prover, vrf_input_data, verifier, ringSig,
                 ietfSig, ietfRes, args>>
  /\ UNCHANGED extVars

\* verifier.ietf_vrf_verify(data, aux, bytes, signer_key_index), ring_vrf.rs
IetfVrfVerify(data, aux, src, signer_key_index) ==
  /\ verifier.kind = "Verifier"
  /\ HaveBytes(src)
  /\ ietfRes' = [impl |-> "ring_vrf.rs", data |-> data, aux |-> aux,
                 src |-> src, idx |-> signer_key_index,
                 out |-> ietf_vrf_verify(verifier, data, aux, SigBytes(src),
                                         signer_key_index)]
  /\ UNCHANGED <<cacheVars, threadVars, prover, vrf_input_data, verifier,
                 ringSig, ietfSig, ringRes, args>>
  /\ UNCHANGED extVars

\* the same call on the Verifier of lib.rs holding the same ring
LibIetfVrfVerify(data, aux, src, signer_key_index) ==
  /\ verifier.kind = "Verifier"
  /\ HaveBytes(src)
  /\ ietfRes' = [impl |-> "lib.rs", data |-> data, aux |-> aux,
                 src |-> src, idx |-> signer_key_index,
                 out |-> lib_ietf_vrf_verify(verifier, data, aux,
                                             SigBytes(src),
                                             signer_key_index)]
  /\ UNCHANGED <<cacheVars, threadVars, prover, vrf_input_data, verifier,
                 ringSig, ietfSig, ringRes, args>>
  /\ UNCHANGED extVars

\* the ring size another thread asks for while the actors run: the
\* unsupported one, whose derivation fails
Interfering == {MaxRingSize + 1}

\* ring signatures: any verifier ring, any verify arguments
NextRing ==
  \/ \E n \in Interfering : OtherRingContext(n)
  \/ \E ring \in Rings : NewVerifier(ring)
  \/ \E aux \in Data : RingVrfSign(aux)
  \/ \E data \in Data, aux \in Data,
        src \in {"ring", "ring_tampered", "garbage"} :
       RingVrfVerify(data, aux, src)

SpecRing == InitVrf /\ [][NextRing]_vars

\* IETF signatures with the arguments of the behaviour, on a Verifier of
\* the Prover's ring
NextIetf ==
  \/ NewVerifier(prover.ring)
  \/ IetfVrfSign(args.sign_aux)
  \/ LibIetfVrfVerify(args.data, args.aux, args.src, args.idx)
  \/ IetfVrfVerify(args.data, args.aux, args.src, args.idx)

SpecIetf == InitIetf /\ [][NextIetf]_vars

\* both signature kinds of one Prover over the same input data
NextCross ==
  \/ NewVerifier(prover.ring)
  \/ RingVrfSign(args.ring_aux)
  \/ RingVrfVerify(vrf_input_data, args.ring_aux, "ring")
  \/ IetfVrfSign(args.sign_aux)
  \/ IetfVrfVerify(args.data, args.aux, args.src, args.idx)
  \/ LibIetfVrfVerify(args.data, args.aux, args.src, args.idx)

SpecCross == InitCross /\ [][NextCross]_vars

\* ------------------------------------------------- signing on a busy cache
\* the ring sizes other threads ask for while the Prover signs: the oldest
\* entry of a warm cache and the supported sizes a warm cache does not hold
Fillers == {n \in RingSizes : (n = 1 \/ n > WarmLen) /\ n <= MaxRingSize}

\* another thread runs ring_context(n) to completion, one of the MaxCalls
\* such calls of a behaviour
CountedRingContext(n) ==
  /\ calls < MaxCalls
  /\ calls' = calls + 1
  /\ ApplyRingContext(RingContextRun(n))
  /\ UNCHANGED <<pc, ring_size, pcs_params, ret, vrfVars, extVars>>

NextSign ==
  \/ \E n \in Fillers : CountedRingContext(n)
  \/ \E aux \in Data : RingVrfSign(aux)
  \/ \E aux \in Data : IetfVrfSign(aux)

SpecSign == InitVrf /\ [][NextSign]_vars

\* ============================ Part 2b: CommitmentVerifier, commitment.rs
\* CommitmentVerifier::new(commitment, ring_size): stores its arguments
CommitmentVerifierNew(commitment, size) ==
  [kind |-> "CommitmentVerifier", commitment |-> commitment,
   ring_size |-> size]

\* CommitmentVerifier::ring_vrf_verify(&self, vrf_input_data, aux_data,
\* signature) given the outcome r of ring_context(self.ring_size); the call
\* is made only after the signature has decoded
commitment_ring_vrf_verify_size_unchecked(cv, data, aux, bytes, r) ==
  LET sig == DeserializeCompressed("RingVrfSignature", bytes)
      input == vrf_input_point(data)
  IN  IF ~sig.ok THEN Err("DeserializationError")
      ELSE IF r.ret.kind # "Ok" THEN Panic
      ELSE IF ~RingVerify(input, sig.output, aux, sig.proof, sig.proof.com,
                          sig.proof.com)
        THEN Err("SignatureVerificationFailed")
      ELSE Ok(OutputHash32(sig.output))
commitment_ring_vrf_verify(cv, data, aux, bytes, r) ==
  LET sig == DeserializeCompressed("RingVrfSignature", bytes)
      input == vrf_input_point(data)
  IN  IF ~sig.ok THEN Err("DeserializationError")
      ELSE IF r.ret.kind # "Ok" THEN Panic
      ELSE IF ~RingVerify(input, sig.output, aux, sig.proof, r.ret.val,
                          cv.commitment)
        THEN Err("SignatureVerificationFailed")
      ELSE Ok(OutputHash32(sig.output))

\* the CommitmentVerifier after ring_vrf_verify(&self, ..) has returned
\* out: the method borrows self shared and assigns to no field
CommitmentVerifierAfterResize(cv, out, bytes) ==
  IF out.kind = "Err" THEN [cv EXCEPT !.ring_size = 0] ELSE cv
CommitmentVerifierAfter(cv, out, bytes) == cv

\* both verifiers on one ring: any verify input and aux, signatures made
\* with aux 0
InitCommit ==
  /\ InitActors
  /\ InitNoFfi
  /\ InitNoEd
  /\ InitNoVm
  /\ InitNoCommit
  /\ args \in [ring_aux : {0}, sign_aux : {0}, data : Data, aux : Data,
               src : {"ring"}, idx : {0}]

\* CommitmentVerifier::new(verifier.commitment, verifier.ring.len())
NewCommitmentVerifier ==
  /\ verifier.kind = "Verifier"
  /\ commitmentVerifier = NoRet
  /\ commitmentVerifier' =
       CommitmentVerifierNew(verifier.commitment, Len(verifier.ring))
  /\ UNCHANGED <<cacheVars, threadVars, vrfVars, cvRes, ffiVars, edVars,
                 vmVars>>

\* commitmentVerifier.ring_vrf_verify(data, aux, bytes)
CommitmentVerifierVerify(data, aux, src) ==
  /\ commitmentVerifier # NoRet
  /\ HaveBytes(src)
  /\ LET bytes == SigBytes(src)
         decoded == DeserializeCompressed("RingVrfSignature", bytes).ok
         r == RingContextRun(commitmentVerifier.ring_size)
         out == commitment_ring_vrf_verify(commitmentVerifier, data, aux,
                                           bytes, r)
     IN  /\ IF decoded THEN ApplyRingContext(r) ELSE UNCHANGED cacheVars
         /\ cvRes' = [data |-> data, aux |-> aux, src |-> src,
                      bytes |-> bytes, out |-> out]
         /\ commitmentVerifier' =
              CommitmentVerifierAfter(commitmentVerifier, out, bytes)
  /\ UNCHANGED <<threadVars, vrfVars, ffiVars, edVars, vmVars>>

NextCommit ==
  \/ \E n \in Interfering : OtherRingContext(n)
  \/ \E ring \in Rings : NewVerifier(ring)
  \/ NewCommitmentVerifier
  \/ RingVrfSign(args.ring_aux)
  \/ IetfVrfSign(args.sign_aux)
  \/ \E src \in {"ring", "ring_tampered", "garbage"} :
       RingVrfVerify(args.data, args.aux, src)
  \/ \E src \in {"ring", "ring_tampered", "garbage"} :
       CommitmentVerifierVerify(args.data, args.aux, src)
  \/ \E src \in {"ietf", "garbage"} :
       IetfVrfVerify(args.data, args.aux, src, args.idx)

SpecCommit == InitCommit /\ [][NextCommit]_vars

\* =========================================== Part 3: the C functions, lib.rs
\* const RING_SIZE: the one ring size lib.rs derives its context for
RING_SIZE == 1023

\* the value RING_CTX holds once set: from_srs(RING_SIZE, pcs_params) on
\* the embedded 2^11 reference string, which RING_SIZE keys fit
LibRingContext ==
  [kind |-> "ctx", ring_size |-> RING_SIZE, srs |-> init_pcs_params.srs]

\* RING_CTX after a ring_context() call that found no initializer running
lib_ring_context_rederives(once) ==
  [state |-> "init", inits |-> once.inits + 1]
lib_ring_context(once) ==
  IF once.state = "init" THEN once
  ELSE [state |-> "init", inits |-> once.inits + 1]

\* a 32-byte chunk that is the encoding of no curve point
BadPoint == [point |-> 0]
\* Public::deserialize_compressed(chunk)
DeserializePublic(chunk) ==
  IF chunk.point # 0 THEN [ok |-> TRUE, pk |-> chunk] ELSE [ok |-> FALSE]
\* public_keys_slice.chunks(32).map(|c| deserialize_compressed(c).unwrap())
AllDecode(public_keys) ==
  \A i \in 1..Len(public_keys) : DeserializePublic(public_keys[i]).ok

\* the packed rings a caller passes: the two keys in either order, and a
\* buffer whose second chunk is no point
FfiRings == SmallRings \cup {<<PublicOf(1), BadPoint>>}

\* lib.rs Prover::ring_vrf_sign(&self, vrf_input_data, aux_data) -> Vec<u8>
lib_ring_vrf_sign(p, data, aux) ==
  LET input == vrf_input_point(data)
      output == SecretOutput(p.secret, input)
      proof == RingProve(p.secret, input, output, aux, LibRingContext,
                         p.ring, p.prover_idx)
  IN  SerializeCompressed("RingVrfSignature", output, proof)

\* lib.rs Verifier::new(ring)
LibVerifierNew(ring) ==
  [kind |-> "Verifier", ring |-> ring,
   commitment |-> RingCommitment(LibRingContext, ring)]

\* lib.rs Verifier::ring_vrf_verify: deserialize_compressed(..).unwrap(),
\* Err(()) on a failed proof
lib_ring_vrf_verify(v, data, aux, bytes) ==
  LET sig == DeserializeCompressed("RingVrfSignature", bytes)
      input == vrf_input_point(data)
  IN  IF ~sig.ok THEN Panic
      ELSE IF ~RingVerify(input, sig.output, aux, sig.proof, LibRingContext,
                          v.commitment)
        THEN Err("()")
      ELSE Ok(OutputHash32(sig.output))

\* a C function returned the value b
Returns(b) == [kind |-> "return", val |-> b]

\* generate_ring_signature(public_keys, .., prover_idx, prover_key, output):
\* the returned bool and the bytes written to output
generate_ring_signature(public_keys, data, aux, prover_idx, prover_key) ==
  IF ~AllDecode(public_keys) THEN Panic
  ELSE Ok(lib_ring_vrf_sign(ProverNew(public_keys, prover_key, prover_idx),
                            data, aux))

\* verify_ring_signature(public_keys, .., signature, vrf_output): the
\* returned bool and the content of the vrf_output buffer after the call
verify_ring_signature_clobbers(public_keys, data, aux, signature, buf) ==
  IF ~AllDecode(public_keys) THEN [ret |-> Panic, vrf_output |-> buf]
  ELSE LET res == lib_ring_vrf_verify(LibVerifierNew(public_keys), data,
                                      aux, signature)
       IN  CASE res.kind = "Ok" -> [ret |-> Returns(TRUE), vrf_output |-> res.val]
             [] res.kind = "Err" ->
                  [ret |-> Returns(FALSE),
                   vrf_output |-> OutputHash32(
                     DeserializeCompressed("RingVrfSignature",
                                           signature).output)]
             [] OTHER -> [ret |-> Panic, vrf_output |-> buf]
verify_ring_signature(public_keys, data, aux, signature, buf) ==
  IF ~AllDecode(public_keys) THEN [ret |-> Panic, vrf_output |-> buf]
  ELSE LET res == lib_ring_vrf_verify(LibVerifierNew(public_keys), data,
                                      aux, signature)
       IN  CASE res.kind = "Ok" -> [ret |-> Returns(TRUE), vrf_output |-> res.val]
             [] res.kind = "Err" -> [ret |-> Returns(FALSE), vrf_output |-> buf]
             [] OTHER -> [ret |-> Panic, vrf_output |-> buf]

\* what the caller's vrf_output buffer holds before the first call
CallerBytes == [sha512_32 |-> <<>>]

\* a cold process; the caller's ring, input, aux, prover index and secret
InitFfi ==
  /\ InitCache(0)
  /\ InitThreads
  /\ InitNoVrf
  /\ InitNoCommit
  /\ InitNoEd
  /\ InitNoVm
  /\ RING_CTX = [state |-> "uninit", inits |-> 0]
  /\ libPc = [t \in Threads |-> "idle"]
  /\ libCtx = [t \in Threads |-> NoRet]
  /\ ffiArgs \in [public_keys : FfiRings, data : Data, aux : Data,
                  prover_idx : 0..1, prover_key : Secrets]
  /\ genSig = NoRet
  /\ vrf_output = CallerBytes
  /\ ffiRes = NoRet

libFrame == <<cacheVars, threadVars, vrfVars, commitVars, edVars, vmVars>>

\* a thread enters initialize_ring_context()
InitializeRingContext(t) ==
  /\ libPc[t] \in {"idle", "done"}
  /\ libPc' = [libPc EXCEPT ![t] = "ring_ctx"]
  /\ libCtx' = [libCtx EXCEPT ![t] = NoRet]
  /\ UNCHANGED <<RING_CTX, ffiArgs, genSig, vrf_output, ffiRes>>
  /\ UNCHANGED libFrame

\* RING_CTX.get_or_init(..): already set, return the reference
LibGet(t) ==
  /\ libPc[t] = "ring_ctx"
  /\ RING_CTX.state = "init"
  /\ libCtx' = [libCtx EXCEPT ![t] = [ctx |-> LibRingContext,
                                       init |-> RING_CTX.inits]]
  /\ libPc' = [libPc EXCEPT ![t] = "done"]
  /\ UNCHANGED <<RING_CTX, ffiArgs, genSig, vrf_output, ffiRes>>
  /\ UNCHANGED libFrame

\* RING_CTX.get_or_init(..): vacant, this thread runs the closure
LibBeginInit(t) ==
  /\ libPc[t] = "ring_ctx"
  /\ RING_CTX.state # "init"
  /\ OnceLockVacant(RING_CTX.state)
  /\ RING_CTX' = [RING_CTX EXCEPT !.state = "running"]
  /\ libPc' = [libPc EXCEPT ![t] = "ring_ctx_init"]
  /\ UNCHANGED <<libCtx, ffiArgs, genSig, vrf_output, ffiRes>>
  /\ UNCHANGED libFrame

\* the closure returns the derived context and the OnceLock is set
LibFinishInit(t) ==
  /\ libPc[t] = "ring_ctx_init"
  /\ RING_CTX' = [state |-> "init", inits |-> RING_CTX.inits + 1]
  /\ libCtx' = [libCtx EXCEPT ![t] = [ctx |-> LibRingContext,
                                       init |-> RING_CTX.inits + 1]]
  /\ libPc' = [libPc EXCEPT ![t] = "done"]
  /\ UNCHANGED <<ffiArgs, genSig, vrf_output, ffiRes>>
  /\ UNCHANGED libFrame

\* ring_context() can return: RING_CTX is set, or it is vacant and this
\* caller initializes it
LibContextReady == RING_CTX.state = "init" \/ OnceLockVacant(RING_CTX.state)

\* the caller runs generate_ring_signature on its buffers
GenerateRingSignature ==
  /\ LibContextReady
  /\ LET out == generate_ring_signature(ffiArgs.public_keys, ffiArgs.data,
                                        ffiArgs.aux, ffiArgs.prover_idx,
                                        ffiArgs.prover_key)
     IN  /\ genSig' = out
         /\ RING_CTX' = IF out = Panic THEN RING_CTX
                                       ELSE lib_ring_context(RING_CTX)
  /\ UNCHANGED <<libPc, libCtx, ffiArgs, vrf_output, ffiRes>>
  /\ UNCHANGED libFrame

\* the 784 signature bytes a caller hands to verify_ring_signature
FfiSigBytes(src) ==
  CASE src = "gen" -> genSig.val
    [] src = "gen_tampered" -> Tampered(genSig.val)
    [] OTHER -> Garbage

\* the caller runs verify_ring_signature(public_keys, data, aux, bytes,
\* vrf_output)
VerifyRingSignature(aux, src) ==
  /\ LibContextReady
  /\ src \in {"gen", "gen_tampered"} => genSig.kind = "Ok"
  /\ LET bytes == FfiSigBytes(src)
         out == verify_ring_signature(ffiArgs.public_keys, ffiArgs.data,
                                      aux, bytes, vrf_output)
     IN  /\ ffiRes' = [aux |-> aux, src |-> src, bytes |-> bytes,
                       before |-> vrf_output, ret |-> out.ret]
         /\ vrf_output' = out.vrf_output
         /\ RING_CTX' = IF AllDecode(ffiArgs.public_keys)
                          THEN lib_ring_context(RING_CTX) ELSE RING_CTX
  /\ UNCHANGED <<libPc, libCtx, ffiArgs, genSig>>
  /\ UNCHANGED libFrame

NextFfi ==
  \/ \E t \in Threads : InitializeRingContext(t)
  \/ \E t \in Threads : LibGet(t)
  \/ \E t \in Threads : LibBeginInit(t)
  \/ \E t \in Threads : LibFinishInit(t)
  \/ GenerateRingSignature
  \/ \E aux \in Data, src \in {"gen", "gen_tampered", "garbage"} :
       VerifyRingSignature(aux, src)

SpecFfi == InitFfi /\ [][NextFfi]_vars

\* =========================================== Part 4: ed25519_verify
\* a null pointer
Null == [kind |-> "null"]

\* the Ed25519 signing keys; VerificationKey::from(&sk) of key k is k
EdKeys == 1..NKeys
\* messages: byte strings of at most MaxMsgLen bytes
RECURSIVE BytesOfLen(_)
BytesOfLen(n) ==
  IF n = 0 THEN {<<>>}
  ELSE {<<b>> \o m : b \in 0..1, m \in BytesOfLen(n - 1)}
Msgs == UNION {BytesOfLen(n) : n \in 0..MaxMsgLen}

\* 32 bytes: the encoding of verification key k, or of no key
VkBytes(k) == [kind |-> "buf", vk |-> k]
BadVkBytes == [kind |-> "buf", vk |-> 0]
\* VerificationKey::try_from(pk_bytes)
VerificationKeyTryFrom(pk_bytes) ==
  IF pk_bytes.vk # 0 THEN [ok |-> TRUE, key |-> pk_bytes.vk]
                     ELSE [ok |-> FALSE]

\* 64 bytes: sk.sign(msg) of signing key k, with flips bytes flipped after
\* signing
SigBytes64(k, msg, flips) ==
  [kind |-> "buf", signer |-> k, msg |-> msg, flips |-> flips]
\* vk.verify(&sig, msg) is Ok: the signature is the one the key's owner
\* made for this message
EdVerify(key, sig, msg) ==
  /\ sig.flips = 0
  /\ sig.signer = key
  /\ sig.msg = msg

\* a message buffer of MaxMsgLen bytes
MsgBuffer(bytes) == [kind |-> "buf", bytes |-> bytes]

\* ed25519_verify(public_key, signature, message, message_len) -> c_int
ed25519_verify_null_is_empty(public_key, signature, message, message_len) ==
  IF public_key = Null \/ signature = Null THEN -1
  ELSE LET msg == IF message_len = 0 \/ message = Null THEN <<>>
                  ELSE SubSeq(message.bytes, 1, message_len)
           vk == VerificationKeyTryFrom(public_key)
       IN  IF ~vk.ok THEN -1
           ELSE IF EdVerify(vk.key, signature, msg) THEN 0
           ELSE -1
ed25519_verify(public_key, signature, message, message_len) ==
  IF public_key = Null \/ signature = Null THEN -1
  ELSE IF message = Null /\ message_len > 0 THEN -1
  ELSE LET msg == IF message_len = 0 THEN <<>>
                  ELSE SubSeq(message.bytes, 1, message_len)
           vk == VerificationKeyTryFrom(public_key)
       IN  IF ~vk.ok THEN -1
           ELSE IF EdVerify(vk.key, signature, msg) THEN 0
           ELSE -1

\* any arguments a caller can pass: message_len is at most the length of
\* the buffer message points to
InitEd ==
  /\ InitCache(0)
  /\ InitThreads
  /\ InitNoVrf
  /\ InitNoCommit
  /\ InitNoFfi
  /\ InitNoVm
  /\ edArgs \in
       [public_key : {Null, BadVkBytes} \cup {VkBytes(k) : k \in EdKeys},
        signature : {Null} \cup
                    {SigBytes64(k, m, f) : k \in EdKeys, m \in Msgs,
                                           f \in 0..1},
        message : {Null} \cup {MsgBuffer(b) : b \in BytesOfLen(MaxMsgLen)},
        message_len : 0..MaxMsgLen]
  /\ edRes = NoRet

\* the caller runs ed25519_verify on its arguments
Ed25519Verify ==
  /\ edRes' = [ret |-> ed25519_verify(edArgs.public_key, edArgs.signature,
                                      edArgs.message, edArgs.message_len)]
  /\ UNCHANGED <<cacheVars, threadVars, vrfVars, commitVars, ffiVars, edArgs,
                 vmVars>>

NextEd == Ed25519Verify

SpecEd == InitEd /\ [][NextEd]_vars

\* ===================================== Part 5: ProgramExecutor, polkavm_ffi
\* The RawInstance belongs to the external VM engine: it is represented by
\* the outcome of each instance.run() call.
ExecutionStatus ==
  {"Success", "Trap", "OutOfGas", "Segfault", "InstanceRunError", "Running"}

\* page addresses the engine reports in InterruptKind::Segfault
PageAddresses == 1..NPages

\* what instance.run() can return: Ok(InterruptKind) or Err(_)
Interrupt(k) == [kind |-> k, page_address |-> 0]
RunOutcomes ==
  {Interrupt(k) :
     k \in {"Finished", "Trap", "NotEnoughGas", "Step", "Ecalli", "Err"}}
  \cup {[kind |-> "Segfault", page_address |-> a] : a \in PageAddresses}

\* the stages of ProgramExecutor::new that can fail, in program order, and
\* the InitializationError each maps to
InitStages ==
  <<"EngineError", "ProgramError", "ModuleError", "InstantiationError",
    "MemoryError">>

\* ProgramExecutor::new given the set of stages that would fail: the error
\* of the first failing stage, or the executor
ProgramExecutorNew(failing) ==
  IF \E i \in 1..Len(InitStages) : InitStages[i] \in failing
    THEN Err(InitStages[CHOOSE i \in 1..Len(InitStages) :
                          /\ InitStages[i] \in failing
                          /\ \A j \in 1..(i - 1) :
                               InitStages[j] \notin failing])
    ELSE Ok([current_status |-> "Running", segfault_address |-> 0])

\* create_executor: Box::into_raw of the executor, or a null pointer
create_executor(failing) ==
  LET r == ProgramExecutorNew(failing)
  IN  IF r.kind = "Ok" THEN r.val ELSE Null

\* gas_limit is a u64 and the gas counter of the instance an i64
U64 == 0..(2^GasBits - 1)
\* `gas_limit as i64`: the same bits read as a two's complement number
AsI64(u) == IF u < 2^(GasBits - 1) THEN u ELSE u - 2^GasBits

\* a MemoryPage handed to create_executor, with what the instance answers
\* to write_memory and to protect_memory for it
MemoryPages ==
  [is_writable : BOOLEAN, write_memory : {"Ok", "Err"},
   protect_memory : {"Ok", "Err"}]
RECURSIVE PageLists(_)
PageLists(n) ==
  IF n = 0 THEN {<<>>}
  ELSE PageLists(n - 1)
         \cup {Append(ps, p) : ps \in PageLists(n - 1), p \in MemoryPages}

\* the loop over the pages: write_memory for every page, protect_memory
\* for the pages that are not writable, `?` on each
MemoryStageFails(pages) ==
  \E i \in 1..Len(pages) :
    \/ pages[i].write_memory = "Err"
    \/ ~pages[i].is_writable /\ pages[i].protect_memory = "Err"

\* the stages that fail: those of engine, parse, module and instantiation
\* given by early, the memory stage decided by the pages
Failing(early, pages) ==
  early \cup (IF MemoryStageFails(pages) THEN {"MemoryError"} ELSE {})

\* the stages ProgramExecutor::new executes from stage i on: each `?`
\* returns at the first error
RECURSIVE StagesRunFrom(_, _)
StagesRunFrom(i, failing) ==
  IF i > Len(InitStages) THEN <<>>
  ELSE IF InitStages[i] \in failing THEN <<InitStages[i]>>
  ELSE <<InitStages[i]>> \o StagesRunFrom(i + 1, failing)

\* the instance after the last statements of ProgramExecutor::new:
\* set_next_program_counter(ProgramCounter(0)), set_gas(gas_limit as i64)
InstanceAfterNew(limit) ==
  [next_program_counter |-> 0, gas |-> AsI64(limit)]

\* create_execution_result(&self): the fields read from the executor
create_execution_result(e) ==
  [status |-> e.current_status, segfault_address |-> e.segfault_address]

\* ProgramExecutor::step(&mut self) when instance.run() returns run: the
\* executor after the call and the ExecutionResult returned
step_result_before_update(e, run) ==
  LET status ==
        CASE run.kind = "Finished" -> "Success"
          [] run.kind = "Trap" -> "Trap"
          [] run.kind = "NotEnoughGas" -> "OutOfGas"
          [] run.kind = "Segfault" -> "Segfault"
          [] run.kind = "Step" -> "Running"
          [] run.kind = "Ecalli" -> "Running"
          [] OTHER -> "InstanceRunError"
      after == [current_status |-> status,
                segfault_address |->
                  IF run.kind = "Segfault" THEN run.page_address
                                           ELSE e.segfault_address]
  IN  [executor |-> after, result |-> create_execution_result(e)]
step(e, run) ==
  LET status ==
        CASE run.kind = "Finished" -> "Success"
          [] run.kind = "Trap" -> "Trap"
          [] run.kind = "NotEnoughGas" -> "OutOfGas"
          [] run.kind = "Segfault" -> "Segfault"
          [] run.kind = "Step" -> "Running"
          [] run.kind = "Ecalli" -> "Running"
          [] OTHER -> "InstanceRunError"
      after == [current_status |-> status,
                segfault_address |->
                  IF run.kind = "Segfault" THEN run.page_address
                                           ELSE e.segfault_address]
  IN  [executor |-> after, result |-> create_execution_result(after)]

\* ProgramExecutor::is_finished(&self)
is_finished(e) ==
  e.current_status \in
    {"Success", "Trap", "OutOfGas", "Segfault", "InstanceRunError"}

InitVm ==
  /\ InitCache(0)
  /\ InitThreads
  /\ InitNoVrf
  /\ InitNoCommit
  /\ InitNoFfi
  /\ InitNoEd
  /\ InitNoVm

vmFrame == <<cacheVars, threadVars, vrfVars, commitVars, ffiVars, edVars>>

\* create_executor(.., initial_pages, .., gas_limit) on a program for which
\* the stages in early fail
CreateExecutor(early, pages, limit) ==
  /\ executor = NoRet
  /\ LET failing == Failing(early, pages)
         r == ProgramExecutorNew(failing)
     IN  /\ newResult' = r
         /\ executor' = create_executor(failing)
         /\ stagesRun' = StagesRunFrom(1, failing)
         /\ instance' = IF r.kind = "Ok" THEN InstanceAfterNew(limit)
                                         ELSE NoRet
  /\ gas_limit' = limit
  /\ UNCHANGED <<lastResult, interrupts, finished>>
  /\ UNCHANGED vmFrame

\* step_executor(executor), the engine returning run
StepExecutor(run) ==
  /\ executor \notin {NoRet, Null}
  /\ Len(interrupts) < MaxSteps
  /\ LET r == step(executor, run) IN
       /\ executor' = r.executor
       /\ lastResult' = r.result
  /\ interrupts' = Append(interrupts, run)
  /\ finished' = NoRet
  /\ UNCHANGED <<newResult, stagesRun, gas_limit, instance>>
  /\ UNCHANGED vmFrame

\* is_executor_finished(executor)
IsExecutorFinished ==
  /\ executor \notin {NoRet, Null}
  /\ finished' = [val |-> is_finished(executor)]
  /\ UNCHANGED <<executor, lastResult, interrupts>>
  /\ UNCHANGED <<newResult, stagesRun, gas_limit, instance>>
  /\ UNCHANGED vmFrame

NextVm ==
  \/ /\ executor = NoRet
     /\ \E early \in SUBSET {InitStages[i] : i \in 1..(Len(InitStages) - 1)},
           pages \in PageLists(NPages), limit \in U64 :
          CreateExecutor(early, pages, limit)
  \/ \E run \in RunOutcomes : StepExecutor(run)
  \/ IsExecutorFinished

SpecVm == InitVm /\ [][NextVm]_vars

\* ======================================================= claims C1 .. C6
\* the ring sizes that have been in the cache at some time
Accessed == {n \in RingSizes : lastAccess[n] > 0}
InCriticalSection == {t \in Threads : pc[t] \in {"get", "from_srs"}}
Returned(t) == pc[t] = "done" /\ ret[t].kind = "ctx"
\* a ring size that was cached earlier and is no longer cached
Evicted(n) == lastAccess[n] > 0 /\ n \notin Keys(lru)

\* C1: in every reachable state, under every interleaving of ring_context
\* calls, the cache holds at most RING_CONTEXT_CACHE_CAPACITY (10) entries
\* and no ring size occurs in two entries.
C1_CacheBounded ==
  /\ Len(lru) <= 10
  /\ Len(lru) <= RING_CONTEXT_CACHE_CAPACITY
  /\ \A i, j \in 1..Len(lru) : lru[i].key = lru[j].key => i = j

\* a full cache from which an entry has already been evicted
C1_Witness == Len(lru) = RING_CONTEXT_CACHE_CAPACITY /\ \E n \in RingSizes : Evicted(n)

\* C2: every step that completes a cache access follows LRU. A hit for n
\* keeps the key set, makes n the head and keeps the order of the others.
\* A successful miss for n inserts n as the head; when the cache held 10
\* entries exactly one key leaves and it is the key whose last access is
\* oldest, otherwise no key leaves.
C2_HitStep(t) ==
  (pc[t] = "get" /\ pc'[t] = "done") =>
    /\ Keys(lru') = Keys(lru)
    /\ Len(lru') = Len(lru)
    /\ lru'[1].key = ring_size[t]
    /\ \A k \in Keys(lru) \ {ring_size[t]} :
         /\ lastAccess'[ring_size[t]] > lastAccess'[k]
         /\ \A j \in Keys(lru) \ {ring_size[t]} :
              (lastAccess'[j] < lastAccess'[k]) = (lastAccess[j] < lastAccess[k])
    /\ \A i, j \in 2..Len(lru') : i < j =>
         LruIndex(lru, lru'[i].key) < LruIndex(lru, lru'[j].key)

C2_MissStep(t) ==
  (pc[t] = "from_srs" /\ ret'[t].kind = "ctx") =>
    LET n == ring_size[t] IN
    /\ n \notin Keys(lru)
    /\ lru'[1].key = n
    /\ \A k \in Keys(lru') \ {n} : lastAccess'[n] > lastAccess'[k]
    /\ IF Len(lru) = 10
         THEN \E e \in Keys(lru) :
                /\ Keys(lru') = (Keys(lru) \ {e}) \cup {n}
                /\ \A k \in Keys(lru) : lastAccess[e] <= lastAccess[k]
         ELSE Keys(lru') = Keys(lru) \cup {n}

C2_LruPolicy == [][\A t \in Threads : C2_HitStep(t) /\ C2_MissStep(t)]_vars

\* a hit on the oldest entry saved it: the entry evicted later is the one
\* inserted after it
C2_Witness ==
  /\ Len(lru) = RING_CONTEXT_CACHE_CAPACITY
  /\ \E a, b \in RingSizes :
       /\ a < b /\ b <= WarmLen
       /\ a \in Keys(lru)
       /\ Evicted(b)
       /\ \E t \in Threads : Returned(t) /\ ret[t].via = "miss"

\* C3: whatever happened before, a context returned by ring_context(n) is
\* the context from_srs derives for n from the reference string, and every
\* cached entry holds the context of its own key.
C3_ContextIsFresh ==
  /\ \A t \in Threads :
       Returned(t) => ret[t].ctx = FromSrs(ring_size[t], init_pcs_params)
  /\ \A i \in 1..Len(lru) :
       lru[i].val = FromSrs(lru[i].key, init_pcs_params)

\* a context returned by a hit while another entry was evicted and a
\* context re-derived after its entry had been evicted
C3_Witness ==
  /\ \E t \in Threads : Returned(t) /\ ret[t].via = "miss" /\ ret[t].again
  /\ \E n \in RingSizes : Evicted(n)

\* C4: init_pcs_params completes at most once, the OnceLock is set exactly
\* when it has completed, and every thread that read PCS_PARAMS holds the
\* one value it produced.
C4_PcsLoadedOnce ==
  /\ pcsLoads <= 1
  /\ (PCS_PARAMS.state = "init") = (pcsLoads = 1)
  /\ \A t \in Threads :
       pcs_params[t] # NoRef =>
         pcs_params[t] = [srs |-> init_pcs_params.srs, load |-> 1]

\* two threads made their first call on a cold process and both hold the
\* parameters before any cache access has completed
C4_Witness ==
  /\ Accessed = {}
  /\ pcsLoads = 1
  /\ \E t, u \in Threads :
       t # u /\ pcs_params[t] # NoRef /\ pcs_params[u] # NoRef

\* C5: at most one thread is between lock() and the drop of the guard, so
\* no two threads derive at once, and every cached ring size was derived
\* exactly once since it entered the cache.
C5_MutualExclusion ==
  /\ Cardinality(InCriticalSection) <= 1
  /\ \A t \in InCriticalSection : lockOwner = t
  /\ \A n \in RingSizes :
       derives[n] = IF n \in Keys(lru) THEN 1 ELSE 0

\* two threads asked for the same cold ring size: one derived it, the
\* other one got a hit
C5_Witness ==
  \E t, u \in Threads :
    /\ t # u /\ Returned(t) /\ Returned(u)
    /\ ring_size[t] = ring_size[u]
    /\ ret[t].via = "miss" /\ ret[u].via = "hit"
    /\ Accessed = {ring_size[t]}

\* C6: a finished call for a ring size beyond the backend limit has
\* returned a typed error, it never poisons the mutex, and a finished call
\* for a supported ring size has returned a context.
C6_TypedErrorKeepsCacheUsable ==
  /\ ~poisoned
  /\ \A t \in Threads :
       pc[t] = "done" =>
         IF ring_size[t] > MaxRingSize
           THEN ret[t] = [kind |-> "err"]
           ELSE ret[t].kind = "ctx"

\* ====================================================== claims C7 .. C10
\* the Prover's secret key sits at prover_idx of its ring
ProverInRing ==
  /\ prover.prover_idx + 1 \in 1..Len(prover.ring)
  /\ prover.ring[prover.prover_idx + 1] = PublicOf(prover.secret)

\* the last ring_vrf_verify call was given what the Prover signed, by a
\* Verifier built from the Prover's ring in the same order
HonestRingVerify ==
  /\ ringRes # NoRet
  /\ ringRes.src = "ring"
  /\ ringRes.data = vrf_input_data
  /\ ringRes.aux = ringRes.bytes.proof.aux
  /\ verifier.ring = prover.ring
  /\ ProverInRing

\* C7: a ring_vrf_verify call that returns has returned
\* DeserializationError if the bytes do not decode as a Ring signature,
\* otherwise VerificationFailed if the ring proof does not check against
\* {input, output, aux} under the stored commitment, otherwise Ok with the
\* 32-byte hash of the signature's output; and a hash is returned only for
\* bytes the Prover produced for this input, aux and ring.
C7_VerifyOutcomes ==
  (ringRes # NoRet /\ ringRes.out # Panic) =>
    LET sig == DeserializeCompressed("RingVrfSignature", ringRes.bytes)
        fresh == FromSrs(Len(verifier.ring), init_pcs_params)
    IN  /\ ringRes.out \in {Err("DeserializationError"),
                            Err("VerificationFailed")}
           \/ ringRes.out.kind = "Ok"
        /\ (ringRes.out = Err("DeserializationError")) = ~sig.ok
        /\ sig.ok =>
             /\ (ringRes.out = Err("VerificationFailed")) =
                  ~RingVerify(vrf_input_point(ringRes.data), sig.output,
                              ringRes.aux, sig.proof, fresh,
                              verifier.commitment)
             /\ ringRes.out.kind = "Ok" =>
                  /\ ringRes.out.val = OutputHash32(sig.output)
                  /\ HonestRingVerify

\* the Prover's own signature decoded and was then rejected by the proof
\* check because the aux data differs
C7_Witness ==
  /\ ringRes # NoRet
  /\ ringRes.src = "ring"
  /\ ringRes.data = vrf_input_data
  /\ ringRes.aux # ringRes.bytes.proof.aux
  /\ verifier.ring = prover.ring
  /\ ProverInRing
  /\ ringRes.out = Err("VerificationFailed")

\* C8: a finished ietf_vrf_verify call with signer_key_index >= ring
\* length, whatever its other arguments, has returned
\* InvalidSignerKeyIndex.
C8_InvalidIndex ==
  (ietfRes # NoRet /\ ietfRes.idx >= Len(verifier.ring)) =>
    ietfRes.out = Err("InvalidSignerKeyIndex")

\* C9: when ring_vrf_verify and ietf_vrf_verify both return a hash for
\* signatures the same Prover made over the same input data, the two
\* hashes are equal, whatever aux data the two signatures carry.
C9_CrossModeEquality ==
  (ringRes # NoRet /\ ietfRes # NoRet
     /\ ringRes.out.kind = "Ok" /\ ietfRes.out.kind = "Ok") =>
    /\ ringRes.out.val = ietfRes.out.val
    /\ ringRes.out.val =
         OutputHash32(SecretOutput(prover.secret,
                                   vrf_input_point(vrf_input_data)))

\* both modes returned a hash for signatures with different aux data
C9_Witness ==
  /\ ringRes # NoRet /\ ietfRes # NoRet
  /\ ringRes.out.kind = "Ok" /\ ietfRes.out.kind = "Ok"
  /\ ringRes.aux # ietfRes.aux
  /\ ietfRes.idx = prover.prover_idx
  /\ ietfRes.impl = "ring_vrf.rs"

\* C10: for a Prover whose key sits at prover_idx, ring_vrf_sign returns
\* a signature, and ring_vrf_verify of that signature with the same input
\* and aux on a Verifier of the same ring returns Ok with the hash that
\* (secret, input) determine.
C10_RoundTrip ==
  /\ (ringSig # NoRet /\ ProverInRing) => ringSig.kind = "Ok"
  /\ HonestRingVerify =>
       ringRes.out = Ok(OutputHash32(SecretOutput(prover.secret,
                                     vrf_input_point(vrf_input_data))))

\* ===================================================== claims C11 .. C20
\* C11: a finished verify_ring_signature call whose signature bytes do not
\* decode, or whose public-key buffer holds a chunk that is no point
\* encoding, has returned false.
C11_MalformedRejected ==
  (ffiRes # NoRet
     /\ \/ ~DeserializeCompressed("RingVrfSignature", ffiRes.bytes).ok
        \/ ~AllDecode(ffiArgs.public_keys)) =>
    ffiRes.ret = Returns(FALSE)

\* C12: after a verify_ring_signature call that returned true the
\* vrf_output buffer holds the hash of the signature's output; after a call
\* that did not return true the buffer holds what it held before the call.
C12_OutputOnSuccessOnly ==
  ffiRes # NoRet =>
    IF ffiRes.ret = Returns(TRUE)
      THEN vrf_output =
             OutputHash32(DeserializeCompressed("RingVrfSignature",
                                                ffiRes.bytes).output)
      ELSE vrf_output = ffiRes.before

\* a call returned false on a signature that decodes, and the buffer still
\* holds the hash an earlier successful call wrote
C12_Witness ==
  /\ ffiRes # NoRet
  /\ ffiRes.ret = Returns(FALSE)
  /\ ffiRes.before # CallerBytes
  /\ DeserializeCompressed("RingVrfSignature", ffiRes.bytes).ok
  /\ vrf_output = ffiRes.before

\* the closure of RING_CTX has completed at most once and every caller
\* holds the context it produced
InitOnce ==
  /\ RING_CTX.inits <= 1
  /\ (RING_CTX.state = "init") = (RING_CTX.inits = 1)
  /\ \A t \in Threads :
       libCtx[t] # NoRet => libCtx[t] = [ctx |-> LibRingContext, init |-> 1]

\* C15: the closure of RING_CTX completes at most once, also when several
\* threads make their first call at once; RING_CTX is set exactly when it
\* has completed; every caller holds the one context it produced; and once
\* RING_CTX is set no initialize_ring_context, sign or verify call changes
\* it.
C15_Idempotent ==
  /\ []InitOnce
  /\ [][RING_CTX.state = "init" => RING_CTX' = RING_CTX]_vars

\* both threads have finished initialize_ring_context, and a signature was
\* generated and verified on the context derived once
C15_Witness ==
  /\ RING_CTX.inits = 1
  /\ \A t \in Threads : libPc[t] = "done" /\ libCtx[t] # NoRet
  /\ genSig.kind = "Ok"
  /\ ffiRes # NoRet
  /\ ffiRes.ret = Returns(TRUE)

\* C13: no step changes a constructed Verifier's commitment or ring, or a
\* constructed CommitmentVerifier's commitment or ring_size, whatever the
\* ring_vrf_verify and ietf_vrf_verify calls return.
C13_VerifierUnchanged ==
  [][/\ verifier.kind = "Verifier" => verifier' = verifier
     /\ commitmentVerifier # NoRet =>
          commitmentVerifier' = commitmentVerifier]_vars

\* both verifiers exist, and calls on them have succeeded and failed with
\* a deserialization error and with a failed proof check
C13_Witness ==
  /\ verifier.kind = "Verifier"
  /\ commitmentVerifier # NoRet
  /\ ringRes # NoRet /\ cvRes # NoRet /\ ietfRes # NoRet
  /\ ringRes.out = Err("VerificationFailed")
  /\ cvRes.out = Err("DeserializationError")
  /\ ietfRes.out.kind = "Ok"

\* the outcomes of Verifier::ring_vrf_verify and of
\* CommitmentVerifier::ring_vrf_verify are of the same kind
SameOutcome(vout, cout) ==
  \/ vout.kind = "Ok" /\ cout = vout
  \/ vout = Err("DeserializationError") /\ cout = vout
  \/ /\ vout = Err("VerificationFailed")
     /\ cout = Err("SignatureVerificationFailed")
  \/ vout = Panic /\ cout = Panic

\* C17: when a Verifier built from a ring and the CommitmentVerifier built
\* from its commitment and ring length were given the same input, aux and
\* signature bytes, both calls returned the same outcome: the same hash,
\* or a deserialization error both, or a failed verification both. (A call
\* returns unless the cache mutex is poisoned.)
C17_ModesAgree ==
  (/\ ringRes # NoRet /\ cvRes # NoRet
   /\ ringRes.data = cvRes.data /\ ringRes.aux = cvRes.aux
   /\ ringRes.bytes = cvRes.bytes) =>
    /\ ~poisoned => (ringRes.out # Panic /\ cvRes.out # Panic)
    /\ (ringRes.out # Panic /\ cvRes.out # Panic) =>
         SameOutcome(ringRes.out, cvRes.out)

\* both verifiers accepted the Prover's signature
C17_Witness ==
  /\ ringRes # NoRet /\ cvRes # NoRet
  /\ ringRes.bytes = cvRes.bytes
  /\ ringRes.out.kind = "Ok"
  /\ cvRes.out = ringRes.out

\* what a ring_vrf_sign step leaves alone: the Prover, and in the cache
\* everything but the entry of the ring's length, which is promoted by a
\* hit or inserted at the eviction of at most one other entry
RingSignFrame ==
  LET n == Len(prover.ring) IN
  /\ prover' = prover
  /\ Keys(lru') \subseteq Keys(lru) \cup {n}
  /\ Cardinality(Keys(lru) \ Keys(lru')) <=
       (IF n \in Keys(lru) \/ n \notin Keys(lru') THEN 0 ELSE 1)
  /\ n \in Keys(lru') => lru'[1].key = n
  /\ \A i \in 1..Len(lru') :
       lru'[i].key # n => lru'[i] = lru[LruIndex(lru, lru'[i].key)]
  /\ \A i, j \in 1..Len(lru') :
       (i < j /\ lru'[i].key # n /\ lru'[j].key # n) =>
         LruIndex(lru, lru'[i].key) < LruIndex(lru, lru'[j].key)

\* what an ietf_vrf_sign step leaves alone: the Prover, the cache contents
\* and the recency order
IetfSignFrame ==
  /\ prover' = prover
  /\ lru' = lru
  /\ lastAccess' = lastAccess

\* C14: a ring_vrf_sign step leaves the Prover's secret, ring and
\* prover_idx unchanged and changes the cache contents only by a hit on, or
\* an insert (with at most one eviction) of, the key ring.len(); an
\* ietf_vrf_sign step leaves the Prover, the cache contents and the recency
\* order unchanged.
C14_SignFrame ==
  [][/\ (\E aux \in Data : RingVrfSign(aux)) => RingSignFrame
     /\ (\E aux \in Data : IetfVrfSign(aux)) => IetfSignFrame]_vars

\* both kinds of signature were made, and the ring signature inserted the
\* context of its ring length into a full cache, evicting another entry
C14_Witness ==
  /\ ringSig.kind = "Ok"
  /\ ietfSig.kind = "Ok"
  /\ Len(lru) = RING_CONTEXT_CACHE_CAPACITY
  /\ lru[1].key = Len(prover.ring)
  /\ Evicted(Len(prover.ring) + 1)

\* the outcome of ring_context(n) run alone on an empty cache
AloneOutcome(n) ==
  IF FromSrs(n, init_pcs_params).kind = "ctx"
    THEN [kind |-> "ctx", ctx |-> FromSrs(n, init_pcs_params)]
    ELSE Panic

\* C16: under every interleaving, a finished ring_context(n) call has had
\* the outcome the same call has when it runs alone on an empty cache.
C16_NoInterference ==
  \A t \in Threads :
    pc[t] = "done" =>
      IF ret[t].kind = "ctx"
        THEN [kind |-> "ctx", ctx |-> ret[t].ctx] = AloneOutcome(ring_size[t])
        ELSE ret[t] = AloneOutcome(ring_size[t])

\* C18: a ring_vrf_sign call that returned, on a Prover whose prover_idx is
\* not the position of its secret's public key in its ring, has returned
\* InvalidProverIndex and no signature.
C18_ProverChecked ==
  (ringSig # NoRet /\ ringSig # Panic /\ ~ProverInRing) =>
    ringSig = Err("InvalidProverIndex")

\* the message the call reads: message_len bytes at message
EdMessage ==
  IF edArgs.message_len = 0 THEN <<>>
  ELSE SubSeq(edArgs.message.bytes, 1, edArgs.message_len)

\* the arguments are well formed and the signature is valid
EdAccepts ==
  /\ edArgs.public_key # Null
  /\ edArgs.signature # Null
  /\ edArgs.message # Null \/ edArgs.message_len = 0
  /\ VerificationKeyTryFrom(edArgs.public_key).ok
  /\ EdVerify(VerificationKeyTryFrom(edArgs.public_key).key,
              edArgs.signature, EdMessage)

\* C19: ed25519_verify returns 0 or -1, and 0 exactly when public_key and
\* signature are non-null, message is non-null or message_len is 0, the key
\* bytes decode and the signature is valid for the message under that key.
\* So the signature a key's owner made over the message (the empty one
\* included) gives 0; a null message with message_len > 0, an undecodable
\* key, a signature with a flipped byte and a signature over another
\* message give -1.
C19_Ed25519Verify ==
  edRes # NoRet =>
    /\ edRes.ret \in {0, -1}
    /\ (edRes.ret = 0) = EdAccepts
    /\ (edArgs.message = Null /\ edArgs.message_len > 0) => edRes.ret = -1
    /\ edArgs.public_key = BadVkBytes => edRes.ret = -1
    /\ (edArgs.signature # Null /\ edArgs.signature.flips # 0) =>
         edRes.ret = -1
    /\ (edArgs.signature # Null /\ edArgs.message_len = 0
        /\ edArgs.signature.msg # <<>>) => edRes.ret = -1
    /\ \A k \in EdKeys :
         (/\ edArgs.public_key = VkBytes(k)
          /\ edArgs.message # Null \/ edArgs.message_len = 0
          /\ edArgs.signature = SigBytes64(k, EdMessage, 0)) =>
           edRes.ret = 0

\* the signature over the empty message verified with a null message
\* pointer and message_len 0
C19_Witness ==
  /\ edRes # NoRet
  /\ edRes.ret = 0
  /\ edArgs.message = Null
  /\ edArgs.message_len = 0

\* the status the claim assigns to the outcome of instance.run()
StatusOfInterrupt(run) ==
  IF run.kind = "Finished" THEN "Success"
  ELSE IF run.kind = "Trap" THEN "Trap"
  ELSE IF run.kind = "NotEnoughGas" THEN "OutOfGas"
  ELSE IF run.kind = "Segfault" THEN "Segfault"
  ELSE IF run.kind \in {"Step", "Ecalli"} THEN "Running"
  ELSE "InstanceRunError"

\* C20: an executor that has not stepped has status Running; after a step
\* the status is the one of that step's interrupt (Finished -> Success,
\* Trap -> Trap, NotEnoughGas -> OutOfGas, Segfault -> Segfault with the
\* faulting page address stored, Step or Ecalli -> Running, run error ->
\* InstanceRunError) and the ExecutionResult of the step carries it;
\* is_finished has returned true exactly when the status is not Running, so
\* a step after which is_finished is true returned a terminal status.
C20_StepStatus ==
  (executor # NoRet /\ executor # Null) =>
    /\ interrupts = <<>> =>
         /\ executor.current_status = "Running"
         /\ lastResult = NoRet
    /\ interrupts # <<>> =>
         LET run == interrupts[Len(interrupts)] IN
         /\ executor.current_status = StatusOfInterrupt(run)
         /\ lastResult.status = StatusOfInterrupt(run)
         /\ run.kind = "Segfault" =>
              /\ executor.segfault_address = run.page_address
              /\ lastResult.segfault_address = run.page_address
    /\ finished # NoRet =>
         /\ finished.val = (executor.current_status # "Running")
         /\ (finished.val /\ lastResult # NoRet) =>
              lastResult.status \in ExecutionStatus \ {"Running"}

\* a loop of two Running steps was ended by a step that faulted on a page,
\* and is_finished returned true after it
C20_Witness ==
  /\ executor # NoRet /\ executor # Null
  /\ Len(interrupts) = 3
  /\ interrupts[1].kind = "Step"
  /\ interrupts[2].kind = "Ecalli"
  /\ interrupts[3].kind = "Segfault"
  /\ finished # NoRet
  /\ finished.val
  /\ lastResult.status = "Segfault"


\* create_executor has returned and no step has been made yet
JustCreated == newResult # NoRet /\ interrupts = <<>>

\* C21: create_executor returns a null pointer exactly when
\* ProgramExecutor::new fails; the error is that of the first failing stage
\* in the order engine, program parse, module build, instantiation, memory
\* pages, and no stage after it ran; a non-null executor has status
\* Running, is_finished false, next program counter 0, gas equal to
\* gas_limit and segfault_address 0.
C21_CreateExecutor ==
  JustCreated =>
    /\ (executor = Null) = (newResult.kind = "Err")
    /\ newResult.kind = "Err" =>
         /\ stagesRun # <<>>
         /\ \A i \in 1..Len(stagesRun) : stagesRun[i] = InitStages[i]
         /\ newResult.err = stagesRun[Len(stagesRun)]
         /\ instance = NoRet
    /\ executor # Null =>
         /\ newResult = Ok(executor)
         /\ stagesRun = InitStages
         /\ executor.current_status = "Running"
         /\ ~is_finished(executor)
         /\ executor.segfault_address = 0
         /\ instance.next_program_counter = 0
         /\ instance.gas = gas_limit

====
